---- MODULE Spec2Model ----
(***************************************************************************)
(* A model of beets' autotagger (beets/autotag/__init__.py): the string    *)
(* distance, the track and album distances, the assignment of items to     *)
(* track slots, the recommendation, and tag_album's control flow.          *)
(*                                                                         *)
(* Python floats are modelled by exact rationals <<n, d>> in lowest terms  *)
(* (d > 0); Python strings by TLA+ strings; None by the value None.        *)
(***************************************************************************)
EXTENDS Integers, Sequences, FiniteSets, TLC

None == "None"

(***************************************************************************)
(* Exact rational arithmetic.                                              *)
(***************************************************************************)
Abs(n) == IF n < 0 THEN -n ELSE n

RECURSIVE Gcd(_, _)
Gcd(a, b) == IF b = 0 THEN a ELSE Gcd(b, a % b)

\* n/d in lowest terms with a positive denominator.
Lowest(n, d, g, s) == <<(s * n) \div g, (s * d) \div g>>
Rat(n, d) ==
    IF n = 0 THEN <<0, 1>>
    ELSE Lowest(n, d, Gcd(Abs(n), Abs(d)), IF d < 0 THEN -1 ELSE 1)

RInt(n) == <<n, 1>>
RZero == <<0, 1>>
ROne == <<1, 1>>

RAddOver(a, b, g) ==
    Rat(a[1] * (b[2] \div g) + b[1] * (a[2] \div g), (a[2] \div g) * b[2])
RAdd(a, b) == RAddOver(a, b, Gcd(a[2], b[2]))
RSub(a, b) == RAdd(a, <<-b[1], b[2]>>)
RCross(x, y) == <<x[1] * y[1], x[2] * y[2]>>
RMul(a, b) == RCross(Rat(a[1], b[2]), Rat(b[1], a[2]))
RDiv(a, b) == RMul(a, Rat(b[2], b[1]))
RLe(a, b) == a[1] * b[2] <= b[1] * a[2]
RLt(a, b) == a[1] * b[2] < b[1] * a[2]
RECURSIVE RSumFrom(_, _)
RSumFrom(seq, k) == IF k > Len(seq) THEN <<0, 1>> ELSE RAdd(seq[k], RSumFrom(seq, k + 1))
RSum(seq) == RSumFrom(seq, 1)
RMax(a, b) == IF RLe(a, b) THEN b ELSE a
RMin(a, b) == IF RLe(a, b) THEN a ELSE b

(***************************************************************************)
(* Python string primitives used by the string distance.                   *)
(***************************************************************************)
CharAt(s, i) == IF 1 <= i /\ i <= Len(s) THEN SubSeq(s, i, i) ELSE ""

UpperChars == "ABCDEFGHIJKLMNOPQRSTUVWXYZ"
LowerChars == "abcdefghijklmnopqrstuvwxyz"
DigitChars == "0123456789"

IndexIn(c, chars) ==
    IF \E i \in 1..Len(chars) : SubSeq(chars, i, i) = c
    THEN CHOOSE i \in 1..Len(chars) : SubSeq(chars, i, i) = c
    ELSE 0

\* str.lower()
LowerChar(c, i) == IF i = 0 THEN c ELSE CharAt(LowerChars, i)
RECURSIVE lower(_)
lower(s) ==
    IF s = "" THEN ""
    ELSE LowerChar(Head(s), IndexIn(Head(s), UpperChars)) \o lower(Tail(s))

\* re.sub(r'[^a-z0-9]', '', s)
RECURSIVE StripNonAlnum(_)
StripNonAlnum(s) ==
    IF s = "" THEN ""
    ELSE (IF IndexIn(Head(s), LowerChars \o DigitChars) = 0 THEN "" ELSE Head(s))
             \o StripNonAlnum(Tail(s))

StartsWithAt(s, i, w) ==
    /\ i >= 1
    /\ i + Len(w) - 1 <= Len(s)
    /\ SubSeq(s, i, i + Len(w) - 1) = w

EndsWith(s, w) == Len(w) <= Len(s) /\ StartsWithAt(s, Len(s) - Len(w) + 1, w)

Min3(a, b, c) ==
    IF a <= b /\ a <= c THEN a ELSE IF b <= c THEN b ELSE c
MaxInt(a, b) == IF a >= b THEN a ELSE b

\* beets.util.levenshtein: the edit distance, computed row by row.
LevCell(prev, c1, s2, cur, j) ==
    Min3(prev[j + 1] + 1, cur[j] + 1,
         prev[j] + (IF c1 = CharAt(s2, j) THEN 0 ELSE 1))
RECURSIVE LevRow(_, _, _, _)
LevRow(prev, c1, s2, cur) ==
    IF Len(cur) = Len(s2) + 1 THEN cur
    ELSE LevRow(prev, c1, s2, Append(cur, LevCell(prev, c1, s2, cur, Len(cur))))

\* prev is row prev[1] of the edit-distance table: its first cell is the
\* number of characters of s1 consumed so far.
RECURSIVE LevFrom(_, _, _)
LevFrom(s1, s2, prev) ==
    IF prev[1] = Len(s1) THEN prev[Len(s2) + 1]
    ELSE LevFrom(s1, s2, LevRow(prev, CharAt(s1, prev[1] + 1), s2, <<prev[1] + 1>>))

levenshtein(s1, s2) ==
    LevFrom(s1, s2, [j \in 1..(Len(s2) + 1) |-> j - 1])

\* _string_dist_basic
BasicRatio(str1, str2) ==
    IF str1 = "" /\ str2 = "" THEN RZero
    ELSE Rat(levenshtein(str1, str2), MaxInt(Len(str1), Len(str2)))
string_dist_basic(str1, str2) ==
    BasicRatio(StripNonAlnum(lower(str1)), StripNonAlnum(lower(str2)))

(***************************************************************************)
(* The string distance: SD_END_WORDS, SD_PATTERNS and string_dist.        *)
(* Each pattern of SD_PATTERNS is modelled by the operator that computes   *)
(* re.sub(pat, '', s): every leftmost non-overlapping match is deleted.    *)
(***************************************************************************)
SD_END_WORDS == <<"the", "a", "an">>

IsOpenBracket(c) == c = "[" \/ c = "("
IsCloseBracket(c) == c = "]" \/ c = ")"

\* r'^the '
SubThe(s) == IF StartsWithAt(s, 1, "the ") THEN SubSeq(s, 5, Len(s)) ELSE s

\* r'[\[\(]?(ep|single)[\]\)]?': the length of the match that starts at i, or 0.
EpWordLen(s, i) ==
    IF StartsWithAt(s, i, "ep") THEN 2
    ELSE IF StartsWithAt(s, i, "single") THEN 6 ELSE 0

\* p is where the word starts and w is its length.
EpClosed(s, i, p, w) ==
    IF w = 0 THEN 0
    ELSE (p - i) + w + (IF IsCloseBracket(CharAt(s, p + w)) THEN 1 ELSE 0)
EpOpened(s, i, p) == EpClosed(s, i, p, EpWordLen(s, p))
EpMatchLen(s, i) ==
    EpOpened(s, i, IF IsOpenBracket(CharAt(s, i)) /\ EpWordLen(s, i + 1) > 0
                   THEN i + 1 ELSE i)

RECURSIVE SubEpFrom(_, _)
SubEpFrom(s, i) ==
    IF i > Len(s) THEN ""
    ELSE IF EpMatchLen(s, i) > 0 THEN SubEpFrom(s, i + EpMatchLen(s, i))
    ELSE CharAt(s, i) \o SubEpFrom(s, i + 1)

SubEp(s) == SubEpFrom(s, 1)

\* A word of `words` at p, then one character of `seps`, then at least one
\* more character (the pattern's trailing .+, which runs to the end).
TailWordAt(s, p, words, seps) ==
    \E k \in 1..Len(words) :
        /\ StartsWithAt(s, p, words[k])
        /\ IndexIn(CharAt(s, p + Len(words[k])), seps) > 0
        /\ p + Len(words[k]) + 1 <= Len(s)

\* r'[\[\(]?(featuring|feat|ft)[\. :].+'
FeatMatchAt(s, i) ==
    \/ IsOpenBracket(CharAt(s, i))
         /\ TailWordAt(s, i + 1, <<"featuring", "feat", "ft">>, ". :")
    \/ TailWordAt(s, i, <<"featuring", "feat", "ft">>, ". :")

SubFeat(s) ==
    IF \E i \in 1..Len(s) : FeatMatchAt(s, i)
    THEN SubSeq(s, 1, (CHOOSE i \in 1..Len(s) :
                          FeatMatchAt(s, i) /\ \A j \in 1..(i - 1) : ~FeatMatchAt(s, j))
                      - 1)
    ELSE s

\* r'\(.*?\)' and r'\[.*?\]': from an opening character to the first closing
\* character after it.
RECURSIVE SubDelimFrom(_, _, _, _)
SubDelimFrom(s, i, open, close) ==
    IF i > Len(s) THEN ""
    ELSE IF CharAt(s, i) = open
              /\ \E j \in (i + 1)..Len(s) : CharAt(s, j) = close
         THEN SubDelimFrom(s,
                           (CHOOSE j \in (i + 1)..Len(s) :
                               /\ CharAt(s, j) = close
                               /\ \A k \in (i + 1)..(j - 1) : CharAt(s, k) # close)
                           + 1,
                           open, close)
         ELSE CharAt(s, i) \o SubDelimFrom(s, i + 1, open, close)

SubParens(s) == SubDelimFrom(s, 1, "(", ")")
SubBrackets(s) == SubDelimFrom(s, 1, "[", "]")

\* r'(, )?(pt\.|part) .+'
PartMatchAt(s, i) ==
    \/ StartsWithAt(s, i, ", ") /\ TailWordAt(s, i + 2, <<"pt.", "part">>, " ")
    \/ TailWordAt(s, i, <<"pt.", "part">>, " ")

SubPart(s) ==
    IF \E i \in 1..Len(s) : PartMatchAt(s, i)
    THEN SubSeq(s, 1, (CHOOSE i \in 1..Len(s) :
                          PartMatchAt(s, i) /\ \A j \in 1..(i - 1) : ~PartMatchAt(s, j))
                      - 1)
    ELSE s

\* The weights of SD_PATTERNS, in order.
SD_PATTERNS ==
    <<Rat(1, 10), RZero, Rat(1, 10), Rat(3, 10), Rat(3, 10), Rat(2, 10)>>

\* re.sub(pat, '', s) for the k-th pattern of SD_PATTERNS.
ReSub(k, s) ==
    CASE k = 1 -> SubThe(s)
      [] k = 2 -> SubEp(s)
      [] k = 3 -> SubFeat(s)
      [] k = 4 -> SubParens(s)
      [] k = 5 -> SubBrackets(s)
      [] k = 6 -> SubPart(s)

\* The loop over SD_END_WORDS, from its k-th word on, for one of the two
\* strings.
RECURSIVE MoveEndWords(_, _)
MoveEndWords(s, k) ==
    IF k > Len(SD_END_WORDS) THEN s
    ELSE IF EndsWith(s, ", " \o SD_END_WORDS[k])
    THEN MoveEndWords(SD_END_WORDS[k] \o " "
                          \o SubSeq(s, 1, Len(s) - Len(SD_END_WORDS[k]) - 2),
                      k + 1)
    ELSE MoveEndWords(s, k + 1)

\* The loop over SD_PATTERNS, from its k-th pattern on;
\* st = [str1, str2, base_dist, penalty] are the loop's variables.
RECURSIVE PatternLoop(_, _)

\* "if case_delta == 0.0: continue", and the shift of the baseline.
PatternShift(st, k, case_str1, case_str2, case_dist, case_delta) ==
    IF case_delta = RZero THEN PatternLoop(st, k + 1)
    ELSE PatternLoop([str1 |-> case_str1, str2 |-> case_str2,
                      base_dist |-> case_dist,
                      penalty |-> RAdd(st.penalty,
                                       RMul(SD_PATTERNS[k], case_delta))],
                     k + 1)

\* case_delta = max(0.0, base_dist - case_dist)
PatternDelta(st, k, case_str1, case_str2, case_dist) ==
    PatternShift(st, k, case_str1, case_str2, case_dist,
                 RMax(RZero, RSub(st.base_dist, case_dist)))

\* "if case_str1 != str1 or case_str2 != str2:"
PatternTurn(st, k, case_str1, case_str2) ==
    IF case_str1 # st.str1 \/ case_str2 # st.str2
    THEN PatternDelta(st, k, case_str1, case_str2,
                      string_dist_basic(case_str1, case_str2))
    ELSE PatternLoop(st, k + 1)

PatternLoop(st, k) ==
    IF k > Len(SD_PATTERNS) THEN st
    ELSE PatternTurn(st, k, ReSub(k, st.str1), ReSub(k, st.str2))

\* return base_dist + penalty
PenalizedDist(st) == RAdd(st.base_dist, st.penalty)

\* string_dist from the base distance on; str1 and str2 are lowercase and
\* have their end words moved.
StringDistFrom(str1, str2) ==
    PenalizedDist(PatternLoop([str1 |-> str1, str2 |-> str2,
                               base_dist |-> string_dist_basic(str1, str2),
                               penalty |-> RZero], 1))

string_dist(s1, s2) ==
    StringDistFrom(MoveEndWords(lower(s1), 1), MoveEndWords(lower(s2), 1))

(***************************************************************************)
(* Constants of the module.                                                *)
(***************************************************************************)
MAX_CANDIDATES == 5

ARTIST_WEIGHT == 3
ALBUM_WEIGHT == 3
TRACK_WEIGHT == 1
TRACK_TITLE_WEIGHT == 3
TRACK_ARTIST_WEIGHT == 2
TRACK_INDEX_WEIGHT == 1
TRACK_LENGTH_GRACE == 10
TRACK_LENGTH_MAX == 30
TRACK_LENGTH_WEIGHT == 2
TRACK_ID_WEIGHT == 5

RECOMMEND_STRONG == "RECOMMEND_STRONG"
RECOMMEND_MEDIUM == "RECOMMEND_MEDIUM"
RECOMMEND_NONE == "RECOMMEND_NONE"
STRONG_REC_THRESH == Rat(4, 100)
MEDIUM_REC_THRESH == Rat(25, 100)
REC_GAP_THRESH == Rat(25, 100)

VA_ARTISTS == {"", "various artists", "va", "unknown"}

(***************************************************************************)
(* Python values.  An Item is a record with the fields artist, album,      *)
(* title, track, length, mb_trackid, mb_albumid and comp; an unset track   *)
(* is 0 and an unset ID is "", as Python's truth tests take them.  A track *)
(* dict and an album info dict are records whose DOMAIN is the dict's key  *)
(* set, so that `'length' in track_data` is "length" \in DOMAIN track_data.*)
(* NoneList stands for None where a list is expected, NoneDict for None    *)
(* where a dict is expected.                                               *)
(***************************************************************************)
NoneList == <<>>
NoneDict == [none |-> TRUE]

\* Python's truth test of a string-or-None value.
Truthy(s) == s # None /\ s # ""

Range(seq) == {seq[i] : i \in 1..Len(seq)}

(***************************************************************************)
(* The items, tracks and releases the model draws its inputs from.         *)
(***************************************************************************)
MaxItems == 2

Item(artist, album, title, track, length, mb_trackid, mb_albumid, comp) ==
    [artist |-> artist, album |-> album, title |-> title, track |-> track,
     length |-> length, mb_trackid |-> mb_trackid, mb_albumid |-> mb_albumid,
     comp |-> comp]

Track(id, title, length) == [id |-> id, title |-> title, length |-> length]

ArtistTrack(id, title, artist, length) ==
    [id |-> id, title |-> title, artist |-> artist, length |-> length]

Info(album_id, album, artist, va, tracks) ==
    [album_id |-> album_id, album |-> album, artist |-> artist, va |-> va,
     tracks |-> tracks]

\* The items of the albums given to tag_album.
TagItems ==
    {Item("x", "al", "a", 1, 200, "", "r1", FALSE),
     Item("x", "al", "b", 2, 100, "", "r1", FALSE),
     Item("y", "al", "b", 0, 100, "", "", TRUE),
     Item("VA", "", "a", 1, 245, "t9", "r2", FALSE)}

\* albums_in_dir yields only non-empty lists of items.
ItemLists == UNION {[1..n -> TagItems] : n \in 1..MaxItems}

\* The releases the catalog and the plugins answer with.
R1 == Info("r1", "al", "x", FALSE,
           <<Track("t1", "a", 200), Track("t2", "b", 100)>>)
R1single == Info("r1", "al", "x", FALSE, <<Track("t1", "a", 200)>>)
R1other == Info("r1", "b", "y", FALSE,
                <<Track("t1", "b", 100), Track("t2", "a", 200)>>)
R2 == Info("r2", "b", "y", FALSE,
           <<[id |-> "t3", title |-> "b"], Track("t4", "a", 100)>>)
R2single == Info("r2", "b", "y", FALSE, <<Track("t9", "a", 245)>>)
R3 == Info("r3", "al", "Various Artists", TRUE,
           <<ArtistTrack("t5", "a", "x", 200), ArtistTrack("t6", "b", "y", 100)>>)
R3single == Info("r3", "al", "Various Artists", TRUE,
                 <<[id |-> "t5", title |-> "the a", artist |-> "x"]>>)

\* A catalog answer longer than the limit asked for: six releases of two
\* tracks each, with different lengths and so different distances.
ExtraIds == <<"r4", "r5", "r6", "r7", "r8", "r9">>
Extra(k) ==
    Info(ExtraIds[k], "al", "y", FALSE,
         <<Track("t1", "a", 215 + 2 * k), Track("t2", "b", 112 + 3 * k)>>)
SixReleases == [k \in 1..Len(ExtraIds) |-> Extra(k)]

TagInfos ==
    {R1, R1single, R1other, R2, R2single, R3, R3single} \cup Range(SixReleases)

\* The items and releases the distance functions are applied to on their
\* own.
DistItems ==
    {Item("x", "al", "a", 0, 200, "", "", FALSE),
     Item("y", "al", "a", 0, 200, "", "", FALSE),
     Item("x", "al", "b", 2, 100, "", "", FALSE),
     Item("y", "b", "b (x)", 1, 245, "t2", "", FALSE)}

DistItemLists == UNION {[1..n -> DistItems] : n \in 1..MaxItems}

K1 == Track("t1", "a", 208)
K2 == Track("t2", "b", 100)
K3 == ArtistTrack("t3", "a", "x", 200)
K4 == ArtistTrack("t4", "a", "y", 200)
K5 == [id |-> "t5", title |-> "b"]
K6 == ArtistTrack("t9", "b (x)", "The Z", 60)
K7 == Track("t7", "the a", 61)

DistTracks == {K1, K2, K3, K4, K5, K6, K7}

DistInfos ==
    {Info("d1", "al", "x", FALSE, <<K1, K2>>),
     Info("d2", "al", "y", TRUE, <<K3, K4>>),
     Info("d3", "b", "VA", TRUE, <<K5, K6>>),
     Info("d4", "", "x", FALSE, <<K7>>),
     Info("d6", "b", "y", FALSE, <<K2, K7, K1>>)}

\* The strings string_dist is applied to on its own: each pattern of
\* SD_PATTERNS and each word of SD_END_WORDS matches one of them.
DistStrings ==
    {"", "a", "b", "The A", "a, the", "b (x)", "a [x]", "a ep", "a feat. b",
     "b, pt. 2", "ab, an", "Unknown"}

\* TLC leaves a function [x \in S |-> e] unevaluated, and computes e anew at
\* every application, until the function is compared: Tabulated(f) is f,
\* evaluated once.
Tabulated(f) == IF f = f THEN f ELSE f

\* plugins.track_distance and plugins.album_distance with no plugin loaded:
\* the sums of no contributions.
plugins_track_distance(item, track_data) == <<RZero, RZero>>
plugins_album_distance(items, info) == <<RZero, RZero>>

(***************************************************************************)
(* _plurality and current_metadata.                                        *)
(***************************************************************************)
Count(objs, obj) == Cardinality({i \in 1..Len(objs) : objs[i] = obj})

\* The loop over freqs.items(): it keeps the first object, in the dict's
\* iteration order, whose frequency is the greatest; that order is a fixed
\* order of the keys, which CHOOSE stands for.  Returns <<res, consensus>>.
plurality_of(objs, freqs) ==
    <<IF freqs = {} THEN None
      ELSE CHOOSE o \in freqs : \A p \in freqs : Count(objs, p) <= Count(objs, o),
      Cardinality(freqs) <= 1>>

plurality(objs) == plurality_of(objs, Range(objs))

\* Returns <<likely artist, likely album, artist consensus>>.
current_metadata(items) ==
    <<plurality([i \in 1..Len(items) |-> items[i].artist])[1],
      plurality([i \in 1..Len(items) |-> items[i].album])[1],
      plurality([i \in 1..Len(items) |-> items[i].artist])[2]>>

(***************************************************************************)
(* track_distance.  Each block of the function adds to dist and to         *)
(* dist_max; a block is modelled by the pair <<what it adds to dist, what  *)
(* it adds to dist_max>>.                                                  *)
(***************************************************************************)
\* The sums of the pairs: <<dist, dist_max>>.
Accumulated(parts) ==
    <<RSum([k \in 1..Len(parts) |-> parts[k][1]]),
      RSum([k \in 1..Len(parts) |-> parts[k][2]])>>

\* length_dist without "diff = max(diff - TRACK_LENGTH_GRACE, 0.0)".
length_dist_no_grace(item, track_data) ==
    IF "length" \notin DOMAIN track_data
    THEN RInt(TRACK_LENGTH_WEIGHT)
    ELSE RMul(RDiv(RMin(RInt(Abs(item.length - track_data.length)),
                        RInt(TRACK_LENGTH_MAX)),
                   RInt(TRACK_LENGTH_MAX)),
              RInt(TRACK_LENGTH_WEIGHT))

\* "Check track length": diff = abs(...); diff = max(diff - GRACE, 0.0);
\* diff = min(diff, MAX); dist += (diff / MAX) * WEIGHT.
length_dist(item, track_data) ==
    IF "length" \notin DOMAIN track_data
    THEN RInt(TRACK_LENGTH_WEIGHT)
    ELSE RMul(RDiv(RMin(RMax(RSub(RInt(Abs(item.length - track_data.length)),
                                  RInt(TRACK_LENGTH_GRACE)),
                             RZero),
                        RInt(TRACK_LENGTH_MAX)),
                   RInt(TRACK_LENGTH_MAX)),
              RInt(TRACK_LENGTH_WEIGHT))

track_length_part(item, track_data) ==
    <<length_dist(item, track_data), RInt(TRACK_LENGTH_WEIGHT)>>

\* "Track title."
track_title_part(item, track_data) ==
    <<RMul(string_dist(item.title, track_data.title), RInt(TRACK_TITLE_WEIGHT)),
      RInt(TRACK_TITLE_WEIGHT)>>

\* "Track artist, if included."
track_artist_part(item, track_data, incl_artist) ==
    IF incl_artist /\ "artist" \in DOMAIN track_data
    THEN <<RMul(string_dist(item.artist, track_data.artist),
                RInt(TRACK_ARTIST_WEIGHT)),
           RInt(TRACK_ARTIST_WEIGHT)>>
    ELSE <<RZero, RZero>>

\* track_index_part without "dist_max += TRACK_INDEX_WEIGHT".
track_index_part_no_max(item, track_index) ==
    IF track_index # 0 /\ item.track # 0
    THEN <<IF track_index # item.track THEN RInt(TRACK_INDEX_WEIGHT) ELSE RZero,
           RZero>>
    ELSE <<RZero, RZero>>

\* "Track index."  A track_index of 0 stands for the default None.
track_index_part(item, track_index) ==
    IF track_index # 0 /\ item.track # 0
    THEN <<IF track_index # item.track THEN RInt(TRACK_INDEX_WEIGHT) ELSE RZero,
           RInt(TRACK_INDEX_WEIGHT)>>
    ELSE <<RZero, RZero>>

\* "MusicBrainz track ID."
track_id_part(item, track_data) ==
    IF item.mb_trackid # ""
    THEN <<IF item.mb_trackid # track_data.id THEN RInt(TRACK_ID_WEIGHT)
           ELSE RZero,
           RInt(TRACK_ID_WEIGHT)>>
    ELSE <<RZero, RZero>>

\* The accumulators <<dist, dist_max>> at the return statement.
track_accumulators(item, track_data, track_index, incl_artist) ==
    Accumulated(<<track_length_part(item, track_data),
                  track_title_part(item, track_data),
                  track_artist_part(item, track_data, incl_artist),
                  track_index_part(item, track_index),
                  track_id_part(item, track_data),
                  plugins_track_distance(item, track_data)>>)

\* return dist / dist_max
Normalized(acc) == RDiv(acc[1], acc[2])

track_distance(item, track_data, track_index, incl_artist) ==
    Normalized(track_accumulators(item, track_data, track_index, incl_artist))

(***************************************************************************)
(* distance.                                                               *)
(***************************************************************************)
\* cur_artist = cur_artist or ''
OrEmpty(s) == IF Truthy(s) THEN s ELSE ""

\* "Artist, if not various."
album_artist_part(cur_artist, info) ==
    IF ~info.va
    THEN <<RMul(string_dist(cur_artist, info.artist), RInt(ARTIST_WEIGHT)),
           RInt(ARTIST_WEIGHT)>>
    ELSE <<RZero, RZero>>

\* The album title.
album_title_part(cur_album, info) ==
    <<RMul(string_dist(cur_album, info.album), RInt(ALBUM_WEIGHT)),
      RInt(ALBUM_WEIGHT)>>

\* "Each track": the i-th turn of the loop over zip(items, info['tracks']).
album_track_part(items, info, i) ==
    <<RMul(track_distance(items[i], info.tracks[i], i, info.va),
           RInt(TRACK_WEIGHT)),
      RInt(TRACK_WEIGHT)>>

\* zip() stops at the shorter of the two lists.
ZipLen(xs, ys) == IF Len(xs) <= Len(ys) THEN Len(xs) ELSE Len(ys)

album_parts(items, info, cur) ==
    <<album_artist_part(OrEmpty(cur[1]), info),
      album_title_part(OrEmpty(cur[2]), info)>>
        \o [i \in 1..ZipLen(items, info.tracks) |-> album_track_part(items, info, i)]
        \o <<plugins_album_distance(items, info)>>

\* The accumulators <<dist, dist_max>> before the normalization.
album_accumulators(items, info) ==
    Accumulated(album_parts(items, info, current_metadata(items)))

\* if dist_max == 0.0: return 0.0 else: return dist / dist_max
NormalizedOrZero(acc) == IF acc[2] = RZero THEN RZero ELSE Normalized(acc)

distance(items, info) == NormalizedOrZero(album_accumulators(items, info))

(***************************************************************************)
(* order_items.                                                            *)
(***************************************************************************)
Matchings(n) ==
    {m \in [1..n -> 1..n] : \A i, j \in 1..n : m[i] = m[j] => i = j}

MatchingCost(costs, m) == RSum([i \in 1..Len(costs) |-> costs[i][m[i]]])

\* Munkres().compute(costs) of the munkres library: a minimum-cost perfect
\* matching of the rows to the columns, here the function row |-> column.
\* Which of several minimum-cost matchings the library returns is a fixed
\* function of the matrix, which CHOOSE stands for.
Munkres_compute(costs) ==
    CHOOSE m \in Matchings(Len(costs)) :
        \A m2 \in Matchings(Len(costs)) :
            RLe(MatchingCost(costs, m), MatchingCost(costs, m2))

\* cost_matrix with the row's number given as the track index.
cost_matrix_row_index(items, trackinfo) ==
    Tabulated([i \in 1..Len(items) |->
                  [j \in 1..Len(trackinfo) |->
                      track_distance(items[i], trackinfo[j], i, FALSE)]])

\* The cost matrix: row i is items[i], column j is trackinfo[j], whose track
\* index is j (enumerate's i + 1).
cost_matrix(items, trackinfo) ==
    Tabulated([i \in 1..Len(items) |->
                  [j \in 1..Len(trackinfo) |->
                      track_distance(items[i], trackinfo[j], j, FALSE)]])

\* ordered_items[canon_idx] = items[cur_idx] for every pair of the matching.
ordered_items(items, matching) ==
    Tabulated([canon_idx \in 1..Len(items) |->
                  items[CHOOSE cur_idx \in 1..Len(items) :
                            matching[cur_idx] = canon_idx]])

order_items(items, trackinfo) ==
    IF Len(items) # Len(trackinfo) THEN NoneList
    ELSE ordered_items(items, Munkres_compute(cost_matrix(items, trackinfo)))

(***************************************************************************)
(* recommendation.  A result tuple (dist, items, info) is a record.        *)
(***************************************************************************)
\* recommendation_for with <= in place of < at STRONG_REC_THRESH.
recommendation_for_le(results, min_dist) ==
    IF RLe(min_dist, STRONG_REC_THRESH) THEN RECOMMEND_STRONG
    ELSE IF Len(results) = 1 THEN RECOMMEND_MEDIUM
    ELSE IF RLe(min_dist, MEDIUM_REC_THRESH) THEN RECOMMEND_MEDIUM
    ELSE IF RLe(REC_GAP_THRESH, RSub(results[2].dist, min_dist))
         THEN RECOMMEND_MEDIUM
    ELSE RECOMMEND_NONE

\* recommendation_for without the branch of MEDIUM_REC_THRESH.
recommendation_for_gap_only(results, min_dist) ==
    IF RLt(min_dist, STRONG_REC_THRESH) THEN RECOMMEND_STRONG
    ELSE IF Len(results) = 1 THEN RECOMMEND_MEDIUM
    ELSE IF RLe(REC_GAP_THRESH, RSub(results[2].dist, min_dist))
         THEN RECOMMEND_MEDIUM
    ELSE RECOMMEND_NONE

\* The recommendation for a non-empty list whose first distance is min_dist.
recommendation_for(results, min_dist) ==
    IF RLt(min_dist, STRONG_REC_THRESH) THEN RECOMMEND_STRONG
    ELSE IF Len(results) = 1 THEN RECOMMEND_MEDIUM
    ELSE IF RLe(min_dist, MEDIUM_REC_THRESH) THEN RECOMMEND_MEDIUM
    ELSE IF RLe(REC_GAP_THRESH, RSub(results[2].dist, min_dist))
         THEN RECOMMEND_MEDIUM
    ELSE RECOMMEND_NONE

recommendation(results) ==
    IF Len(results) = 0 THEN RECOMMEND_NONE
    ELSE recommendation_for(results, results[1].dist)

(***************************************************************************)
(* validate_candidate.  The dict of result tuples is the sequence of its   *)
(* entries [key, value] in the order of their insertion; no key is twice   *)
(* in it.                                                                  *)
(***************************************************************************)
\* InDict with the test looking at the dict's first entry only.
InDict_first(key, tuple_dict) ==
    tuple_dict # <<>> /\ tuple_dict[1].key = key

InDict(key, tuple_dict) == \E k \in 1..Len(tuple_dict) : tuple_dict[k].key = key

\* The dict after "if not ordered: return", the distance and the insertion.
validated(tuple_dict, info, ordered) ==
    IF ordered = NoneList THEN tuple_dict
    ELSE Append(tuple_dict,
                [key |-> info.album_id,
                 value |-> [dist |-> distance(ordered, info),
                            items |-> ordered,
                            info |-> info]])

\* validate_candidate without the test for a duplicate: the assignment
\* tuple_dict[info['album_id']] = ... then replaces the entry of that key.
validate_candidate_overwrite(its, tuple_dict, info) ==
    IF Len(its) # Len(info.tracks) THEN tuple_dict
    ELSE IF InDict(info.album_id, tuple_dict)
    THEN [k \in 1..Len(tuple_dict) |->
             IF tuple_dict[k].key = info.album_id
             THEN validated(<<>>, info, order_items(its, info.tracks))[1]
             ELSE tuple_dict[k]]
    ELSE validated(tuple_dict, info, order_items(its, info.tracks))

\* The dict after the call.
validate_candidate(its, tuple_dict, info) ==
    IF InDict(info.album_id, tuple_dict) THEN tuple_dict
    ELSE IF Len(its) # Len(info.tracks) THEN tuple_dict
    ELSE validated(tuple_dict, info, order_items(its, info.tracks))

\* for info in candidates: validate_candidate(items, out_tuples, info)
RECURSIVE validate_all(_, _, _, _)
validate_all(its, tuple_dict, infos, k) ==
    IF k > Len(infos) THEN tuple_dict
    ELSE validate_all(its, validate_candidate(its, tuple_dict, infos[k]), infos, k + 1)

\* dict.values(): the values, in the dict's own order, which is any order.
DictValues(tuple_dict) ==
    {[k \in 1..Len(tuple_dict) |-> tuple_dict[m[k]].value] :
        m \in Matchings(Len(tuple_dict))}

\* out_tuples = out_tuples.values(); out_tuples.sort(): the values, ascending
\* by the tuples' comparison.  That comparison looks at the distances first;
\* tuples of equal distance are ordered by their items and info, which is any
\* order here.  The lists are built by taking, each time, a value of the
\* least distance among those left.
RECURSIVE SortedOf(_)
SortedOf(values) ==
    IF values = {} THEN {<<>>}
    ELSE UNION {{<<v>> \o rest : rest \in SortedOf(values \ {v})} :
                   v \in {w \in values : \A u \in values : RLe(w.dist, u.dist)}}

\* SortedLists with a sort that is stable on the distance, applied to the
\* values in the order of their insertion.
LeastDistIndex(tuple_dict) ==
    CHOOSE k \in 1..Len(tuple_dict) :
        /\ \A j \in 1..Len(tuple_dict) :
             RLe(tuple_dict[k].value.dist, tuple_dict[j].value.dist)
        /\ \A j \in 1..(k - 1) :
             ~RLe(tuple_dict[j].value.dist, tuple_dict[k].value.dist)
WithoutIndex(seq, k) == SubSeq(seq, 1, k - 1) \o SubSeq(seq, k + 1, Len(seq))
RECURSIVE StableSorted(_)
StableSorted(tuple_dict) ==
    IF tuple_dict = <<>> THEN <<>>
    ELSE <<tuple_dict[LeastDistIndex(tuple_dict)].value>>
             \o StableSorted(WithoutIndex(tuple_dict, LeastDistIndex(tuple_dict)))
SortedLists_stable(tuple_dict) == {StableSorted(tuple_dict)}

SortedLists(tuple_dict) ==
    SortedOf({tuple_dict[k].value : k \in 1..Len(tuple_dict)})

(***************************************************************************)
(* match_by_id: the album ID to look up, or None.                          *)
(***************************************************************************)
\* if len(albumids) > 1 (or no item has an ID): None; else the single ID.
only_albumid(albumids) ==
    IF Cardinality(albumids) = 1 THEN CHOOSE a \in albumids : TRUE ELSE None

match_by_id_albumid(its) ==
    only_albumid({its[i].mb_albumid :
                     i \in {k \in 1..Len(its) : its[k].mb_albumid # ""}})

(***************************************************************************)
(* Inputs of tag_album: the items of an album, the configuration, the      *)
(* search terms, and what the catalog (mb) and the plugins answer.         *)
(***************************************************************************)
\* (search_artist, search_album) as the caller passes them.
SearchArgs ==
    {<<None, None>>, <<"y", "al">>, <<"Various Artists", "al">>, <<"x", None>>}

\* mb.album_for_id(albumid): None, or a release of that ID.
album_for_id(albumid) ==
    {NoneDict} \cup {r \in {R1, R1single, R2, R2single} : r.album_id = albumid}

\* mb.match_album(artist, album, tracks, limit): the releases the catalog
\* yields, for a search with an artist and for one without.
match_album(artist, album, tracks, limit) ==
    IF artist # None
    THEN {<<>>, <<R2, R1>>, <<R1single, R2single>>, SixReleases}
    ELSE {<<>>, <<R3, R1>>, <<R3single>>}

\* plugins.candidates(items)
plugins_candidates(its) == {<<>>, <<R1other, R3>>}

(***************************************************************************)
(* The state.  tag_album's locals and its position; `calls` is the log of  *)
(* the calls made to the catalog and to the plugins; `result` is what      *)
(* tag_album returned.  `call` and `result` hold the arguments and the     *)
(* value of a single function applied on its own.                          *)
(***************************************************************************)
VARIABLES pc, items, config, search_artist, search_album, cur_artist,
          cur_album, artist_consensus, out_tuples, candidates, calls, result,
          call

vars == <<pc, items, config, search_artist, search_album, cur_artist,
          cur_album, artist_consensus, out_tuples, candidates, calls, result,
          call>>

Init ==
    /\ pc = "tag_album"
    /\ items \in ItemLists
    /\ config \in [interactive_autotag : BOOLEAN]
    /\ \E a \in SearchArgs : search_artist = a[1] /\ search_album = a[2]
    /\ cur_artist = None
    /\ cur_album = None
    /\ artist_consensus = TRUE
    /\ out_tuples = <<>>
    /\ candidates = <<>>
    /\ calls = <<>>
    /\ result = NoneDict
    /\ call = NoneDict

\* return cur_artist, cur_album, <candidates>, rec
Returned(artist, album, values, rec) ==
    [cur_artist |-> artist, cur_album |-> album, candidates |-> values,
     rec |-> rec]

\* IdMatched without the test of config.interactive_autotag.
IdMatched_no_interactive(tuples, cur) ==
    /\ out_tuples' = tuples
    /\ \E values \in DictValues(tuples) :
         IF /\ tuples # <<>>
            /\ recommendation(values) = RECOMMEND_STRONG
         THEN /\ result' = Returned(cur[1], cur[2], values, RECOMMEND_STRONG)
              /\ pc' = "done"
         ELSE /\ result' = result
              /\ pc' = "search"

\* "if id_info:" and what follows it: the candidate is validated, and the
\* function returns at once on a strong recommendation outside the
\* interactive mode.
IdMatched(tuples, cur) ==
    /\ out_tuples' = tuples
    /\ \E values \in DictValues(tuples) :
         IF /\ tuples # <<>>
            /\ recommendation(values) = RECOMMEND_STRONG
            /\ ~config.interactive_autotag
         THEN /\ result' = Returned(cur[1], cur[2], values, RECOMMEND_STRONG)
              /\ pc' = "done"
         ELSE /\ result' = result
              /\ pc' = "search"

\* match_by_id(items), for the items' album ID albumid (or None).
IdLookedUp(cur, albumid) ==
    /\ cur_artist' = cur[1]
    /\ cur_album' = cur[2]
    /\ artist_consensus' = cur[3]
    /\ IF albumid = None
       THEN /\ out_tuples' = <<>>
            /\ calls' = calls
            /\ result' = result
            /\ pc' = "search"
       ELSE \E id_info \in album_for_id(albumid) :
              /\ calls' = Append(calls, [fn |-> "mb.album_for_id",
                                         args |-> <<albumid>>,
                                         ret |-> id_info])
              /\ IdMatched(IF id_info = NoneDict THEN <<>>
                           ELSE validate_candidate(items, <<>>, id_info),
                           cur)

\* tag_album up to the return of the ID match: current_metadata, match_by_id
\* with its lookup, validate_candidate, and the early return.
MatchById ==
    /\ pc = "tag_album"
    /\ IdLookedUp(current_metadata(items), match_by_id_albumid(items))
    /\ UNCHANGED <<items, config, search_artist, search_album, candidates, call>>

\* The search with the terms artist and album.
Searched(artist, album) ==
    /\ search_artist' = artist
    /\ search_album' = album
    /\ IF Truthy(artist) /\ Truthy(album)
       THEN \E found \in match_album(artist, album, Len(items), MAX_CANDIDATES) :
              /\ candidates' = found
              /\ calls' = Append(calls,
                                 [fn |-> "mb.match_album",
                                  args |-> <<artist, album, Len(items),
                                             MAX_CANDIDATES>>,
                                  ret |-> found])
       ELSE /\ candidates' = <<>>
            /\ calls' = calls

\* The search terms and the search with them.
Search ==
    /\ pc = "search"
    /\ Searched(IF Truthy(search_artist) /\ Truthy(search_album)
                THEN search_artist ELSE cur_artist,
                IF Truthy(search_artist) /\ Truthy(search_album)
                THEN search_album ELSE cur_album)
    /\ pc' = "va_search"
    /\ UNCHANGED <<items, config, cur_artist, cur_album, artist_consensus,
                   out_tuples, result, call>>

\* va_search_wanted without the test of the items' comp flags.
va_search_wanted_no_comp(album, artist, consensus, its) ==
    /\ Truthy(album)
    /\ \/ ~consensus
       \/ lower(artist) \in VA_ARTISTS

\* if search_album and (...): the test of the "various artists" search.
va_search_wanted(album, artist, consensus, its) ==
    /\ Truthy(album)
    /\ \/ ~consensus
       \/ lower(artist) \in VA_ARTISTS
       \/ \E i \in 1..Len(its) : its[i].comp

\* The "various artists" search.
VaSearch ==
    /\ pc = "va_search"
    /\ IF va_search_wanted(search_album, search_artist, artist_consensus, items)
       THEN \E found \in match_album(None, search_album, Len(items), MAX_CANDIDATES) :
              /\ candidates' = candidates \o found
              /\ calls' = Append(calls,
                                 [fn |-> "mb.match_album",
                                  args |-> <<None, search_album, Len(items),
                                             MAX_CANDIDATES>>,
                                  ret |-> found])
       ELSE /\ candidates' = candidates
            /\ calls' = calls
    /\ pc' = "plugins"
    /\ UNCHANGED <<items, config, search_artist, search_album, cur_artist,
                   cur_album, artist_consensus, out_tuples, result, call>>

\* candidates.extend(plugins.candidates(items))
PluginCandidates ==
    /\ pc = "plugins"
    /\ \E found \in plugins_candidates(items) :
         /\ candidates' = candidates \o found
         /\ calls' = Append(calls, [fn |-> "plugins.candidates", ret |-> found])
    /\ pc' = "evaluate"
    /\ UNCHANGED <<items, config, search_artist, search_album, cur_artist,
                   cur_album, artist_consensus, out_tuples, result, call>>

\* The validation of every candidate, the sort, the recommendation and the
\* return.
Evaluated(tuples) ==
    /\ out_tuples' = tuples
    /\ \E sorted \in SortedLists(tuples) :
         result' = Returned(cur_artist, cur_album, sorted, recommendation(sorted))

Evaluate ==
    /\ pc = "evaluate"
    /\ Evaluated(validate_all(items, out_tuples, candidates, 1))
    /\ pc' = "done"
    /\ UNCHANGED <<items, config, search_artist, search_album, cur_artist,
                   cur_album, artist_consensus, candidates, calls, call>>

Next == MatchById \/ Search \/ VaSearch \/ PluginCandidates \/ Evaluate

Spec == Init /\ [][Next]_vars

(***************************************************************************)
(* recommendation applied on its own: to the lists of at most MaxResults   *)
(* result tuples that are sorted by distance, as tag_album passes them.    *)
(***************************************************************************)
MaxResults == 2

\* The distances of the result tuples, in hundredths.
RecHundredths == {0, 3, 4, 5, 10, 20, 25, 26, 30, 40, 50, 51, 55, 100}

RecTuples ==
    {[dist |-> Rat(h, 100), items |-> <<>>, info |-> info] :
        h \in RecHundredths, info \in {R1, R2}}

RecLists ==
    {results \in UNION {[1..n -> RecTuples] : n \in 0..MaxResults} :
        \A k \in 1..(Len(results) - 1) : RLe(results[k].dist, results[k + 1].dist)}

InitRec ==
    /\ pc = "call"
    /\ call \in {[fn |-> "recommendation", args |-> <<results>>] :
                    results \in RecLists}
    /\ items = <<>>
    /\ config = [interactive_autotag |-> FALSE]
    /\ search_artist = None
    /\ search_album = None
    /\ cur_artist = None
    /\ cur_album = None
    /\ artist_consensus = TRUE
    /\ out_tuples = <<>>
    /\ candidates = <<>>
    /\ calls = <<>>
    /\ result = NoneDict

Recommend ==
    /\ pc = "call"
    /\ call.fn = "recommendation"
    /\ result' = recommendation(call.args[1])
    /\ pc' = "done"
    /\ UNCHANGED <<items, config, search_artist, search_album, cur_artist,
                   cur_album, artist_consensus, out_tuples, candidates, calls,
                   call>>

SpecRec == InitRec /\ [][Recommend]_vars

(***************************************************************************)
(* string_dist, track_distance, distance, order_items and                  *)
(* validate_candidate applied on their own.                                *)
(***************************************************************************)
DistCalls ==
    {[fn |-> "string_dist", args |-> <<s1, s2>>] :
        s1 \in DistStrings, s2 \in DistStrings}
    \cup {[fn |-> "track_distance", args |-> <<item, track_data, track_index, incl>>] :
             item \in DistItems, track_data \in DistTracks,
             track_index \in 0..MaxItems, incl \in BOOLEAN}
    \cup {[fn |-> fn, args |-> <<its, info>>] :
             fn \in {"distance", "order_items", "validate_candidate"},
             its \in DistItemLists, info \in DistInfos}

InitDist ==
    /\ pc = "call"
    /\ call \in DistCalls
    /\ items = <<>>
    /\ config = [interactive_autotag |-> FALSE]
    /\ search_artist = None
    /\ search_album = None
    /\ cur_artist = None
    /\ cur_album = None
    /\ artist_consensus = TRUE
    /\ out_tuples = <<>>
    /\ candidates = <<>>
    /\ calls = <<>>
    /\ result = NoneDict

\* Each action applies the function call.fn to call.args and returns result'.
StringDist ==
    /\ pc = "call"
    /\ call.fn = "string_dist"
    /\ result' = string_dist(call.args[1], call.args[2])
    /\ pc' = "done"
    /\ UNCHANGED <<items, config, search_artist, search_album, cur_artist,
                   cur_album, artist_consensus, out_tuples, candidates, calls,
                   call>>

TrackDistance ==
    /\ pc = "call"
    /\ call.fn = "track_distance"
    /\ result' = track_distance(call.args[1], call.args[2],
                                 call.args[3], call.args[4])
    /\ pc' = "done"
    /\ UNCHANGED <<items, config, search_artist, search_album, cur_artist,
                   cur_album, artist_consensus, out_tuples, candidates, calls,
                   call>>

Distance ==
    /\ pc = "call"
    /\ call.fn = "distance"
    /\ result' = distance(call.args[1], call.args[2])
    /\ pc' = "done"
    /\ UNCHANGED <<items, config, search_artist, search_album, cur_artist,
                   cur_album, artist_consensus, out_tuples, candidates, calls,
                   call>>

OrderItems ==
    /\ pc = "call"
    /\ call.fn = "order_items"
    /\ result' = order_items(call.args[1], call.args[2].tracks)
    /\ pc' = "done"
    /\ UNCHANGED <<items, config, search_artist, search_album, cur_artist,
                   cur_album, artist_consensus, out_tuples, candidates, calls,
                   call>>

\* validate_candidate on an empty dict: the dict it leaves.
ValidateCandidate ==
    /\ pc = "call"
    /\ call.fn = "validate_candidate"
    /\ result' = validate_candidate(call.args[1], <<>>, call.args[2])
    /\ pc' = "done"
    /\ UNCHANGED <<items, config, search_artist, search_album, cur_artist,
                   cur_album, artist_consensus, out_tuples, candidates, calls,
                   call>>

NextDist ==
    StringDist \/ TrackDistance \/ Distance \/ OrderItems \/ ValidateCandidate

SpecDist == InitDist /\ [][NextDist]_vars

(***************************************************************************)
(* validate_candidate called again and again on one dict of result tuples, *)
(* as tag_album does for the ID match and in its loop over the candidates: *)
(* `calls` is the log of the calls made so far.                            *)
(***************************************************************************)
MaxCalls == 3

\* The releases the calls are made with: two of them have the same album_id,
\* and one has another number of tracks.
MapInfos == {R1, R1single, R1other, R2, R3}

InitMap ==
    /\ pc = "map"
    /\ items \in ItemLists
    /\ out_tuples = <<>>
    /\ calls = <<>>
    /\ config = [interactive_autotag |-> FALSE]
    /\ search_artist = None
    /\ search_album = None
    /\ cur_artist = None
    /\ cur_album = None
    /\ artist_consensus = TRUE
    /\ candidates = <<>>
    /\ result = NoneDict
    /\ call = NoneDict

\* validate_candidate(items, out_tuples, info)
ValidateNext ==
    /\ pc = "map"
    /\ Len(calls) < MaxCalls
    /\ \E info \in MapInfos :
         /\ calls' = Append(calls, [fn |-> "validate_candidate",
                                    args |-> <<items, info>>])
         /\ out_tuples' = validate_candidate(items, out_tuples, info)
    /\ UNCHANGED <<pc, items, config, search_artist, search_album, cur_artist,
                   cur_album, artist_consensus, candidates, result, call>>

SpecMap == InitMap /\ [][ValidateNext]_vars

(***************************************************************************)
(* Properties of tag_album (specification Spec).                           *)
(***************************************************************************)
\* C1: for every input of tag_album, the returned candidate list is sorted
\* ascending by distance and holds no two candidates of the same album_id.
C1_SortedNoDuplicates ==
    pc = "done" =>
        /\ \A k \in 1..(Len(result.candidates) - 1) :
             RLe(result.candidates[k].dist, result.candidates[k + 1].dist)
        /\ \A j, k \in 1..Len(result.candidates) :
             result.candidates[j].info.album_id = result.candidates[k].info.album_id
                 => j = k

\* tag_album returned three candidates or more, of different distances, out
\* of candidates of which two had the same album_id.
C1_Witness ==
    /\ pc = "done"
    /\ Len(result.candidates) >= 3
    /\ result.candidates[1].dist # result.candidates[Len(result.candidates)].dist
    /\ \E j, k \in 1..Len(candidates) :
         j # k /\ candidates[j].album_id = candidates[k].album_id

\* The dict validate_candidate makes of the release the ID lookup returned.
IdCandidate == validate_candidate(items, <<>>, calls[1].ret)

\* The items' album IDs agree, the catalog returned a release for the ID, and
\* the validated ID candidate alone gets the recommendation STRONG.
IdStrong ==
    /\ pc # "tag_album"
    /\ match_by_id_albumid(items) # None
    /\ calls # <<>>
    /\ calls[1].fn = "mb.album_for_id"
    /\ calls[1].ret # NoneDict
    /\ IdCandidate # <<>>
    /\ recommendation(<<IdCandidate[1].value>>) = RECOMMEND_STRONG

\* C2: on a strong ID match, outside the interactive mode tag_album returns
\* at once exactly the ID candidate with STRONG, having made no match_album
\* query and no plugin candidate call; in the interactive mode the searches
\* still run and the ID candidate stays in the result map, and is in the
\* final list.
C2_StrongIdMatch ==
    IdStrong =>
        IF ~config.interactive_autotag
        THEN /\ pc = "done"
             /\ result = Returned(cur_artist, cur_album,
                                  <<IdCandidate[1].value>>, RECOMMEND_STRONG)
             /\ Len(calls) = 1
        ELSE /\ pc \in {"search", "va_search", "plugins", "evaluate", "done"}
             /\ out_tuples # <<>>
             /\ out_tuples[1] = IdCandidate[1]
             /\ pc # "done" => out_tuples = IdCandidate
             /\ pc = "done" =>
                  /\ \E k \in 1..Len(calls) : calls[k].fn = "plugins.candidates"
                  /\ Truthy(search_artist) /\ Truthy(search_album) =>
                       \E k \in 1..Len(calls) :
                           /\ calls[k].fn = "mb.match_album"
                           /\ calls[k].args[1] = search_artist
                  /\ \E k \in 1..Len(result.candidates) :
                       result.candidates[k] = IdCandidate[1].value

\* tag_album returned on a strong ID match outside the interactive mode.
C2_Witness ==
    /\ pc = "done"
    /\ IdStrong
    /\ ~config.interactive_autotag
    /\ Len(calls) = 1
    /\ Len(result.candidates) = 1

\* The calls of mb.match_album without an artist, and those with one.
VaCalls ==
    {k \in 1..Len(calls) :
        calls[k].fn = "mb.match_album" /\ calls[k].args[1] = None}
PrimaryCalls ==
    {k \in 1..Len(calls) :
        calls[k].fn = "mb.match_album" /\ calls[k].args[1] # None}

\* The run went through the searches: it did not return from the ID match.
SearchesDone ==
    \/ pc \in {"plugins", "evaluate"}
    \/ pc = "done" /\ \E k \in 1..Len(calls) : calls[k].fn = "plugins.candidates"

\* C3: in a run that the ID match does not end, the query
\* match_album(None, search_album, |items|, 5) is made exactly when
\* search_album is non-empty and the items' artists are not unanimous, or the
\* lowercased search artist is "", "various artists", "va" or "unknown", or
\* an item has its compilation flag set; it is made after the primary
\* search, and the releases of both searches reach the validation.
C3_VaSearch ==
    SearchesDone =>
        /\ VaCalls # {} <=>
             /\ Truthy(search_album)
             /\ \/ Cardinality({items[i].artist : i \in 1..Len(items)}) > 1
                \/ lower(search_artist) \in {"", "various artists", "va", "unknown"}
                \/ \E i \in 1..Len(items) : items[i].comp
        /\ Cardinality(VaCalls) <= 1
        /\ \A k \in VaCalls :
             /\ calls[k].args = <<None, search_album, Len(items), 5>>
             /\ \A j \in PrimaryCalls : j < k
        /\ \A k \in VaCalls \cup PrimaryCalls :
             \A r \in Range(calls[k].ret) :
                 /\ r \in Range(candidates)
                 /\ pc = "done" /\ Len(r.tracks) = Len(items) =>
                      \E e \in Range(out_tuples) : e.key = r.album_id

\* tag_album returned after a primary search and a "various artists" search
\* that both yielded releases.
C3_Witness ==
    /\ pc = "done"
    /\ \E k \in VaCalls : calls[k].ret # <<>>
    /\ \E k \in PrimaryCalls : calls[k].ret # <<>>
    /\ Len(result.candidates) >= 2

\* C10: when a match_album query returns more than MAX_CANDIDATES = 5
\* releases, at most 5 releases of that query are validated and can be in
\* the returned candidate list.
C10_LimitConsumed ==
    pc = "done" =>
        \A k \in 1..Len(calls) :
            calls[k].fn = "mb.match_album" =>
                Cardinality({j \in 1..Len(result.candidates) :
                                result.candidates[j].info \in Range(calls[k].ret)})
                    <= MAX_CANDIDATES

(***************************************************************************)
(* Properties of recommendation (specification SpecRec).                   *)
(***************************************************************************)
\* The distances of a list of result tuples.
Dists(results) == [k \in 1..Len(results) |-> results[k].dist]

\* The list with the items and infos of its tuples replaced.
WithInfos(results, infos) ==
    [k \in 1..Len(results) |->
        [dist |-> results[k].dist, items |-> <<>>, info |-> infos[k]]]

\* The decision table, for the distances d of a list.
TableRow1(d) == Len(d) = 0
TableRow2(d) == Len(d) >= 1 /\ RLt(d[1], Rat(4, 100))
TableRow3(d) == Len(d) = 1 /\ ~RLt(d[1], Rat(4, 100))
TableRow4(d) ==
    Len(d) >= 2 /\ ~RLt(d[1], Rat(4, 100)) /\ RLe(d[1], Rat(25, 100))
TableRow5(d) ==
    /\ Len(d) >= 2
    /\ ~RLe(d[1], Rat(25, 100))
    /\ RLe(Rat(25, 100), RSub(d[2], d[1]))
TableRow6(d) ==
    /\ Len(d) >= 2
    /\ ~RLe(d[1], Rat(25, 100))
    /\ ~RLe(Rat(25, 100), RSub(d[2], d[1]))

\* C4: recommendation follows the decision table: the empty list gives NONE,
\* d0 < 0.04 gives STRONG, otherwise a single candidate gives MEDIUM,
\* otherwise d0 <= 0.25 gives MEDIUM, otherwise d1 - d0 >= 0.25 gives MEDIUM,
\* otherwise NONE; and the result depends on the distances only.
C4_DecisionTable ==
    pc = "done" /\ call.fn = "recommendation" =>
        /\ TableRow1(Dists(call.args[1])) => result = RECOMMEND_NONE
        /\ TableRow2(Dists(call.args[1])) => result = RECOMMEND_STRONG
        /\ TableRow3(Dists(call.args[1])) => result = RECOMMEND_MEDIUM
        /\ TableRow4(Dists(call.args[1])) => result = RECOMMEND_MEDIUM
        /\ TableRow5(Dists(call.args[1])) => result = RECOMMEND_MEDIUM
        /\ TableRow6(Dists(call.args[1])) => result = RECOMMEND_NONE
        /\ \A infos \in [1..Len(call.args[1]) -> {R1, R2}] :
             recommendation(WithInfos(call.args[1], infos)) = result

\* recommendation returned for two candidates whose best distance is more
\* than 0.25 and whose gap is 0.25 or more.
C4_Witness ==
    /\ pc = "done"
    /\ call.fn = "recommendation"
    /\ TableRow5(Dists(call.args[1]))
    /\ result = RECOMMEND_MEDIUM

\* C5, as stated: [0.10, 0.40] gives MEDIUM, [0.10, 0.20] gives NONE, [0.03]
\* gives STRONG and [0.50] gives MEDIUM.
C5_GapScenarioAsStated ==
    pc = "done" /\ call.fn = "recommendation" =>
        /\ Dists(call.args[1]) = <<Rat(10, 100), Rat(40, 100)>>
             => result = RECOMMEND_MEDIUM
        /\ Dists(call.args[1]) = <<Rat(10, 100), Rat(20, 100)>>
             => result = RECOMMEND_NONE
        /\ Dists(call.args[1]) = <<Rat(3, 100)>> => result = RECOMMEND_STRONG
        /\ Dists(call.args[1]) = <<Rat(50, 100)>> => result = RECOMMEND_MEDIUM

\* C5: for two candidates whose best distance is not strong, the
\* recommendation is MEDIUM when the best distance is at most 0.25, and is
\* decided by the gap to the runner-up only when it is more: [0.10, 0.40]
\* and [0.10, 0.20] both give MEDIUM, [0.03] gives STRONG and [0.50] gives
\* MEDIUM.
C5_GapScenario ==
    pc = "done" /\ call.fn = "recommendation" =>
        /\ Dists(call.args[1]) = <<Rat(10, 100), Rat(40, 100)>>
             => result = RECOMMEND_MEDIUM
        /\ Dists(call.args[1]) = <<Rat(10, 100), Rat(20, 100)>>
             => result = RECOMMEND_MEDIUM
        /\ Dists(call.args[1]) = <<Rat(3, 100)>> => result = RECOMMEND_STRONG
        /\ Dists(call.args[1]) = <<Rat(50, 100)>> => result = RECOMMEND_MEDIUM
        /\ Len(call.args[1]) = 2 /\ result # RECOMMEND_STRONG =>
             (result = RECOMMEND_MEDIUM <=>
                 \/ RLe(call.args[1][1].dist, Rat(25, 100))
                 \/ RLe(Rat(25, 100),
                        RSub(call.args[1][2].dist, call.args[1][1].dist)))

\* recommendation returned MEDIUM for the distances [0.10, 0.20].
C5_Witness ==
    /\ pc = "done"
    /\ call.fn = "recommendation"
    /\ Dists(call.args[1]) = <<Rat(10, 100), Rat(20, 100)>>
    /\ result = RECOMMEND_MEDIUM

(***************************************************************************)
(* Properties of the distance functions (specification SpecDist).          *)
(***************************************************************************)
\* The items in the order p.
Permuted(its, p) == Tabulated([k \in 1..Len(its) |-> its[p[k]]])

\* C6: for any album_info and any two orders of the same items, of as many
\* items as the release has tracks, distance(order_items(items, tracks),
\* album_info), the distance validate_candidate records, is the same value.
C6_OrderInsensitive ==
    /\ pc = "done"
    /\ call.fn = "validate_candidate"
    /\ Len(call.args[1]) = Len(call.args[2].tracks)
    => \A p \in Matchings(Len(call.args[1])) :
           validate_candidate(Permuted(call.args[1], p), <<>>,
                              call.args[2])[1].value.dist
               = result[1].value.dist

\* The sum over the slots j of track_distance(ordered[j], tracks[j], j+1,
\* include_artist = false), the slots being numbered from 0 there.
SlotCost(ordered, tracks) ==
    RSum([j \in 1..Len(tracks) |->
             track_distance(ordered[j], tracks[j], j, FALSE)])

\* C7: order_items returns None when |items| # |tracks|; otherwise a list of
\* length N in which every input item is exactly once, and whose summed
\* track distance is the least over all N! bijections.
C7_OrderItems ==
    pc = "done" /\ call.fn = "order_items" =>
        IF Len(call.args[1]) # Len(call.args[2].tracks)
        THEN result = NoneList
        ELSE /\ Len(result) = Len(call.args[1])
             /\ \E p \in Matchings(Len(call.args[1])) :
                  result = Permuted(call.args[1], p)
             /\ \A p \in Matchings(Len(call.args[1])) :
                  RLe(SlotCost(result, call.args[2].tracks),
                      SlotCost(Permuted(call.args[1], p), call.args[2].tracks))

\* order_items returned the items in another order than it got them, and
\* that order costs less.
C7_Witness ==
    /\ pc = "done"
    /\ call.fn = "order_items"
    /\ Len(call.args[1]) = Len(call.args[2].tracks)
    /\ result # call.args[1]
    /\ RLt(SlotCost(result, call.args[2].tracks),
           SlotCost(call.args[1], call.args[2].tracks))

\* C8: with no plugin contributions, track_distance and distance return a
\* value in [0, 1] whatever signals are active, and the denominator of
\* track_distance is never zero.
C8_UnitInterval ==
    pc = "done" =>
        /\ call.fn \in {"track_distance", "distance"} =>
             RLe(RZero, result) /\ RLe(result, ROne)
        /\ call.fn = "track_distance" =>
             RLt(RZero, track_accumulators(call.args[1], call.args[2],
                                           call.args[3], call.args[4])[2])

\* track_distance returned for a track with an artist, the artist included,
\* a track index that is not the item's, and a track ID that is not the
\* item's.
C8_Witness ==
    /\ pc = "done"
    /\ call.fn = "track_distance"
    /\ call.args[4]
    /\ "artist" \in DOMAIN call.args[2]
    /\ call.args[3] # 0
    /\ call.args[1].track # 0
    /\ call.args[3] # call.args[1].track
    /\ call.args[1].mb_trackid # ""
    /\ call.args[1].mb_trackid # call.args[2].id
    /\ RLt(RZero, result)

\* The length difference of the call's item and track.
LengthDiff == Abs(call.args[1].length - call.args[2].length)

\* The call is one the statement on the length speaks of.
LengthCase ==
    /\ pc = "done"
    /\ call.fn = "track_distance"
    /\ \/ "length" \notin DOMAIN call.args[2]
       \/ LengthDiff <= 10
       \/ LengthDiff >= 40
       \/ call.args[2].length = 208 /\ call.args[1].length = 245

\* track_distance's value when its length block adds `penalty` to dist.
WithLengthPenalty(penalty) ==
    Normalized(Accumulated(
        <<<<penalty, RInt(2)>>,
          track_title_part(call.args[1], call.args[2]),
          track_artist_part(call.args[1], call.args[2], call.args[4]),
          track_index_part(call.args[1], call.args[3]),
          track_id_part(call.args[1], call.args[2]),
          plugins_track_distance(call.args[1], call.args[2])>>))

\* C9, as stated: with track.length = 208, item.length = 245 contributes
\* 2.0 * (25/30).
C9_LengthGraceAsStated ==
    LengthCase =>
        result = WithLengthPenalty(
                     IF "length" \notin DOMAIN call.args[2] THEN RInt(2)
                     ELSE IF LengthDiff <= 10 THEN RZero
                     ELSE IF LengthDiff >= 40 THEN RInt(2)
                     ELSE RMul(RInt(2), Rat(25, 30)))

\* C9: a length difference of at most 10 s contributes zero and one of at
\* least 40 s, or an absent track length, the full weight 2.0; with
\* track.length = 208, item.length = 200 contributes 0 and item.length = 245
\* contributes 2.0 * (27/30).
C9_LengthGrace ==
    LengthCase =>
        result = WithLengthPenalty(
                     IF "length" \notin DOMAIN call.args[2] THEN RInt(2)
                     ELSE IF LengthDiff <= 10 THEN RZero
                     ELSE IF LengthDiff >= 40 THEN RInt(2)
                     ELSE RMul(RInt(2), Rat(27, 30)))

\* track_distance returned for an item of length 245 and a track of length
\* 208.
C9_Witness ==
    /\ pc = "done"
    /\ call.fn = "track_distance"
    /\ "length" \in DOMAIN call.args[2]
    /\ call.args[2].length = 208
    /\ call.args[1].length = 245

(***************************************************************************)
(* Properties of the dict of result tuples (specification SpecMap).        *)
(***************************************************************************)
\* The release of the last call made.
LastInfo == calls[Len(calls)].args[2]

\* The dict's entry e is a triple stored under its info's album_id, with as
\* many ordered items as the release has tracks and as there are items.
WellFormedEntry(e) ==
    /\ DOMAIN e.value = {"dist", "items", "info"}
    /\ e.value.info.album_id = e.key
    /\ Len(e.value.items) = Len(e.value.info.tracks)
    /\ Len(e.value.items) = Len(items)

\* C11: over any sequence of validate_candidate calls on one result map,
\* every entry under key k is a triple (d, ordered, info) with
\* info.album_id = k and |ordered| = |info.tracks| = |items|; an entry once
\* stored is never replaced or removed, the first candidate of an album_id
\* winning; and a call that drops its candidate (duplicate id, track-count
\* mismatch, unorderable) leaves the map and the items unchanged.
C11_ResultMap ==
    [][/\ items' = items
       /\ Len(out_tuples') >= Len(out_tuples)
       /\ \A k \in 1..Len(out_tuples) : out_tuples'[k] = out_tuples[k]
       /\ \A k \in 1..Len(out_tuples') : WellFormedEntry(out_tuples'[k])
       /\ \A j, k \in 1..Len(out_tuples') :
            out_tuples'[j].key = out_tuples'[k].key => j = k
       /\ IF \/ \E k \in 1..Len(out_tuples) : out_tuples[k].key = LastInfo'.album_id
             \/ Len(items) # Len(LastInfo'.tracks)
             \/ order_items(items, LastInfo'.tracks) = NoneList
          THEN out_tuples' = out_tuples
          ELSE /\ Len(out_tuples') = Len(out_tuples) + 1
               /\ out_tuples'[Len(out_tuples')].value.info = LastInfo'
      ]_vars

\* A release was stored, a second one of the same album_id was dropped and
\* one of another track count was dropped: the first is still the entry.
C11_Witness ==
    /\ pc = "map"
    /\ Len(calls) = 3
    /\ calls[1].args[2] = R1
    /\ calls[2].args[2] = R1other
    /\ calls[3].args[2] = R1single
    /\ Len(items) = 2
    /\ Len(out_tuples) = 1
    /\ out_tuples[1].value.info = R1

(***************************************************************************)
(* Properties of the order of the returned list (specification Spec).      *)
(***************************************************************************)
\* The dict with its i-th and (i+1)-th entries inserted the other way round.
Swapped(tuple_dict, i) ==
    [k \in 1..Len(tuple_dict) |->
        IF k = i THEN tuple_dict[i + 1]
        ELSE IF k = i + 1 THEN tuple_dict[i]
        ELSE tuple_dict[k]]

\* When the value v was inserted into out_tuples.
InsertedAt(v) == CHOOSE k \in 1..Len(out_tuples) : out_tuples[k].value = v

\* C12, as stated: in the returned list, candidates of equal distance are in
\* the order of their insertion into the result map, and the order of
\* insertion does not affect the sorted output.
C12_StableAsStated ==
    pc = "done" =>
        /\ \A j, k \in 1..Len(result.candidates) :
             j < k /\ result.candidates[j].dist = result.candidates[k].dist
                 => InsertedAt(result.candidates[j]) < InsertedAt(result.candidates[k])
        /\ \A i \in 1..(Len(out_tuples) - 1) :
             SortedLists(Swapped(out_tuples, i)) = {result.candidates}

\* C12: the returned list holds the values of the result map in ascending
\* order of distance; candidates of equal distance are in an order that the
\* order of insertion does not fix, and the lists that can be returned are
\* the same whatever the order in which the candidates were inserted.
C12_SortedOutput ==
    pc = "done" =>
        /\ Len(result.candidates) = Len(out_tuples)
        /\ \A k \in 1..Len(out_tuples) :
             \E j \in 1..Len(result.candidates) :
                 result.candidates[j] = out_tuples[k].value
        /\ \A k \in 1..(Len(result.candidates) - 1) :
             RLe(result.candidates[k].dist, result.candidates[k + 1].dist)
        /\ \A i \in 1..(Len(out_tuples) - 1) :
             /\ SortedLists(Swapped(out_tuples, i)) = SortedLists(out_tuples)
             /\ result.candidates \in SortedLists(Swapped(out_tuples, i))

\* tag_album returned two candidates of equal distance in the order opposite
\* to that of their insertion.
C12_Witness ==
    /\ pc = "done"
    /\ \E j, k \in 1..Len(result.candidates) :
         /\ j < k
         /\ result.candidates[j].dist = result.candidates[k].dist
         /\ InsertedAt(result.candidates[j]) > InsertedAt(result.candidates[k])

====
